---- MODULE Spec2Model ----
(***************************************************************************)
(* Cross-device notification read-state server (piu96/PushNotification).   *)
(*                                                                         *)
(* Spec    : the running server of src/server.js (Express routes) on the   *)
(*           Mongoose models of src/models.js.                             *)
(* DateSpec : the same routes, with markRead calls of two devices at two   *)
(*           timestamps.                                                   *)
(* DocSpec : the functions documented in the README part of src/server.js  *)
(*           (markNotificationAsRead, sendPushNotification, syncDevice).   *)
(* SyncSpec, PushSpec, VersionSpec, KeySpec, BodySpec : the server with    *)
(*           the sync route, markPushSent, two lock keys, or a null        *)
(*           timestamp, each on its own small set of requests.             *)
(* CheckSpec : shouldSendPushToDevice on any Notification document.        *)
(* RepairSpec, FrameSpec : the read route beside the documented syncDevice *)
(*           (and, in FrameSpec, the sync route).                          *)
(* FaultSpec : the routes on a store whose operations can reject.          *)
(*                                                                         *)
(* One user owns every device and notification, so the userId fields are   *)
(* left out of the documents.  Dates are points of a logical clock.        *)
(*                                                                         *)
(* A handler runs from one await to the next without interruption.  The    *)
(* store applying the operation a handler awaits is one step, and the      *)
(* answer reaching the handler, which then runs to its next await and      *)
(* builds its next operation, is another: requests interleave between the  *)
(* two.  A new Date() is read in the step of the handler that builds the   *)
(* operation and kept in its date field until the store applies it.  The   *)
(* two steps are one where the handler, between the answer and its next    *)
(* await or its return, reads neither the clock nor the lock map and       *)
(* invokes nothing: what it does then depends on the answer alone.  For    *)
(* the same reason the arrival of a request is one step with the store     *)
(* applying its first operation when the handler has read nothing before.  *)
(***************************************************************************)
EXTENDS Integers, Sequences, FiniteSets, TLC

\* ------------------------------------------------------------------ bounds
MaxRequests == 3      \* markRead requests received in one run
MaxClock    == 2      \* the logical clock runs over 1..MaxClock
MaxFaults   == 1      \* store operations that fail on connectivity
MaxSyncs    == 1      \* sync requests received in one run
MaxDocCalls == 3      \* calls of the documented functions in one run
MaxSent     == 2      \* length of the pushSentTo lists a run may start from
MaxFrameReads == 2    \* markRead requests in one run of FrameSpec and RepairSpec
MaxFrameSyncs == 1    \* syncDevice calls in one run of FrameSpec and RepairSpec
MaxDateReads  == 2    \* markRead requests in one run of DateSpec
MaxVersionReads == 2  \* markRead requests in one run of VersionSpec
MaxPushReads  == 1    \* markRead requests in one run of PushSpec
MaxSyncReads  == 1    \* markRead requests in one run of SyncSpec

Keys          == {"N1", "N2"}        \* keys of operationLocks
NotifIds      == {"N1"}              \* notification ids of the requests
DeviceIds     == {"D1", "D2", "D3"}
Registering   == {"D1"}              \* the devices that register
Timestamps    == {1, 2}              \* caller-supplied timestamps

\* ------------------------------------------------------- program constants
Null     == 0         \* readAt: null / a date that is not set
NoLock   == 0         \* operationLocks has no entry for the key
NoDevice == "none"    \* globalReadByDevice not set

VARIABLES
  now,             \* new Date()
  devices,         \* Device collection
  notifications,   \* Notification collection
  deviceStates,    \* DeviceNotificationState collection
  pushQueue,       \* PushQueue collection
  operationLocks,  \* the Map of server.js: notificationId -> pending promise
  reqs,            \* POST /notifications/:id/read requests, in arrival order
  faults,          \* store operations failed so far
  lastSync,        \* the last POST /sync/:deviceId request and its response
  creates,         \* POST /notifications requests, by the uuid they generated
  loaded,          \* the Notification document object a caller holds
  lastPush,        \* the last markPushSent call on that object
  lastCheck,       \* the last shouldSendPushToDevice call and what it returned
  docCalls,        \* calls of the documented functions, in call order
  transport        \* pushService.send invocations: <<notificationId, deviceId>> -> count

vars == <<now, devices, notifications, deviceStates, pushQueue,
          operationLocks, reqs, faults, lastSync, creates, loaded, lastPush,
          lastCheck, docCalls, transport>>

serverVars == <<operationLocks, reqs, lastSync, creates>>
objVars    == <<loaded, lastPush, lastCheck>>
docVars    == <<docCalls, transport>>

\* ----------------------------------------------------------------- helpers
Max(S) == CHOOSE x \in S : \A y \in S : y <= x

Count(seq, x) == Cardinality({i \in DOMAIN seq : seq[i] = x})

\* Array.prototype.includes
Includes(seq, x) == \E i \in DOMAIN seq : seq[i] = x

\* -------------------------------------------------------------- documents
\* Notification.findOne({ notificationId })
FindNotification(n) == {doc \in notifications : doc.notificationId = n}

\* DeviceNotificationState.findOne({ notificationId, deviceId })
getDeviceState(n, d) ==
  {s \in deviceStates : s.notificationId = n /\ s.deviceId = d}

\* new Notification({...}) with the schema defaults; save() sets updatedAt
NewNotification(n, date) ==
  [notificationId |-> n, isGloballyRead |-> FALSE, globalReadAt |-> Null,
   globalReadByDevice |-> NoDevice, pushSentTo |-> <<>>, pushSentAt |-> Null,
   version |-> 1, updatedAt |-> date]

\* the device state documents of the fan-out
NewDeviceState(n, d, date) ==
  [notificationId |-> n, deviceId |-> d, isRead |-> FALSE, readAt |-> Null,
   lastSyncAt |-> date, version |-> 1]

\* --------------------------------------------------------- store operations
\* a filter that matches the state whatever it holds
markAsReadMatch_Always(s, ts) == TRUE

\* a filter that takes an equal timestamp for a more recent one
markAsReadMatch_OrEqual(s, ts) ==
  \/ s.isRead = FALSE
  \/ s.readAt # Null /\ s.readAt <= ts

\* the $or of markAsReadAtomic's filter: { isRead: false } or { readAt: { $lt: timestamp } }
markAsReadMatch(s, ts) ==
  \/ s.isRead = FALSE
  \/ s.readAt # Null /\ s.readAt < ts

\* an update whose $inc of the version is -1
markAsReadAtomic_Decrement(n, d, ts, date) ==
  LET matched == {s \in getDeviceState(n, d) : markAsReadMatch(s, ts)}
  IN  IF matched # {}
      THEN LET old == CHOOSE s \in matched : TRUE
               new == [old EXCEPT !.isRead = TRUE, !.readAt = ts,
                                  !.lastSyncAt = date, !.version = @ - 1]
           IN  [states |-> (deviceStates \ {old}) \cup {new},
                doc |-> {new}, error |-> "none"]
      ELSE IF getDeviceState(n, d) # {}
      THEN [states |-> deviceStates, doc |-> {}, error |-> "E11000"]
      ELSE LET new == [notificationId |-> n, deviceId |-> d, isRead |-> TRUE,
                       readAt |-> ts, lastSyncAt |-> date, version |-> 1]
           IN  [states |-> deviceStates \cup {new}, doc |-> {new}, error |-> "none"]

\* the upsert on a collection without the unique index on the pair
markAsReadAtomic_NoIndex(n, d, ts, date) ==
  LET matched == {s \in getDeviceState(n, d) : markAsReadMatch(s, ts)}
  IN  IF matched # {}
      THEN LET old == CHOOSE s \in matched : TRUE
               new == [old EXCEPT !.isRead = TRUE, !.readAt = ts,
                                  !.lastSyncAt = date, !.version = @ + 1]
           IN  [states |-> (deviceStates \ {old}) \cup {new},
                doc |-> {new}, error |-> "none"]
      ELSE LET new == [notificationId |-> n, deviceId |-> d, isRead |-> TRUE,
                       readAt |-> ts, lastSyncAt |-> date, version |-> 1]
           IN  [states |-> deviceStates \cup {new}, doc |-> {new}, error |-> "none"]

\* DeviceNotificationState.markAsReadAtomic: findOneAndUpdate with upsert and new,
\* date being the new Date() of its $set.  No document matching the filter makes
\* the upsert insert one, which the unique index on (notificationId, deviceId)
\* refuses when the pair has a document.
markAsReadAtomic(n, d, ts, date) ==
  LET matched == {s \in getDeviceState(n, d) : markAsReadMatch(s, ts)}
  IN  IF matched # {}
      THEN LET old == CHOOSE s \in matched : TRUE
               new == [old EXCEPT !.isRead = TRUE, !.readAt = ts,
                                  !.lastSyncAt = date, !.version = @ + 1]
           IN  [states |-> (deviceStates \ {old}) \cup {new},
                doc |-> {new}, error |-> "none"]
      ELSE IF getDeviceState(n, d) # {}
      THEN [states |-> deviceStates, doc |-> {}, error |-> "E11000"]
      ELSE LET new == [notificationId |-> n, deviceId |-> d, isRead |-> TRUE,
                       readAt |-> ts, lastSyncAt |-> date, version |-> 1]
           IN  [states |-> deviceStates \cup {new}, doc |-> {new}, error |-> "none"]

\* a filter without the isGloballyRead condition
globalReadFilter_Any(doc, ts) == TRUE

\* the filter of step 2: { notificationId, isGloballyRead: false }
globalReadFilter(doc, ts) == doc.isGloballyRead = FALSE

\* step 2 of the read route: Notification.findOneAndUpdate, new: true; date is the
\* updatedAt Mongoose adds to the update when the query is built (timestamps: true)
markGloballyRead(n, d, ts, date) ==
  LET matched == {doc \in FindNotification(n) : globalReadFilter(doc, ts)}
  IN  IF matched # {}
      THEN LET old == CHOOSE doc \in matched : TRUE
               new == [old EXCEPT !.isGloballyRead = TRUE, !.globalReadAt = ts,
                                  !.globalReadByDevice = d, !.version = @ + 1,
                                  !.updatedAt = date]
           IN  [notifs |-> (notifications \ {old}) \cup {new}, doc |-> {new}]
      ELSE [notifs |-> notifications, doc |-> {}]

\* a check that looks at pushSentTo only
shouldSendPushToDevice_SentOnly(doc, d) == ~Includes(doc.pushSentTo, d)

\* notificationSchema.methods.shouldSendPushToDevice
shouldSendPushToDevice(doc, d) ==
  IF Includes(doc.pushSentTo, d) THEN FALSE
  ELSE IF doc.isGloballyRead THEN FALSE
  ELSE TRUE

\* a markPushSent that pushes without looking
markPushSent_NoCheck(doc, d) ==
  LET pushed == [doc EXCEPT !.pushSentTo = Append(@, d)]
  IN  IF pushed.pushSentAt = Null THEN [pushed EXCEPT !.pushSentAt = now] ELSE pushed

\* notificationSchema.methods.markPushSent: assignments to the document object
\* the method is called on
markPushSent(doc, d) ==
  LET pushed == IF ~Includes(doc.pushSentTo, d)
                THEN [doc EXCEPT !.pushSentTo = Append(@, d)] ELSE doc
  IN  IF pushed.pushSentAt = Null THEN [pushed EXCEPT !.pushSentAt = now] ELSE pushed

\* ------------------------------------------------------------------- Init
NoResponse ==
  [status |-> 0, success |-> FALSE, reason |-> "", wasFirstGlobalRead |-> FALSE,
   globalReadAt |-> Null]

\* no POST /notifications has generated this id
NoCreate == [pc |-> "none", found |-> {}, date |-> Null, status |-> 0]

NoSync ==
  [seq |-> 0, deviceId |-> NoDevice, lastSyncAt |-> 0, pc |-> "none", status |-> 0,
   found |-> {}, conflicts |-> {}]

NoPush == [notificationId |-> "", deviceId |-> NoDevice, included |-> FALSE]

NoCheck == [notificationId |-> "", deviceId |-> NoDevice, returned |-> FALSE]

Init ==
  /\ now = 1
  /\ devices = {}
  /\ notifications = {}
  /\ deviceStates = {}
  /\ pushQueue = {}
  /\ operationLocks = [n \in Keys |-> NoLock]
  /\ reqs = <<>>
  /\ faults = 0
  /\ lastSync = NoSync
  /\ creates = [n \in Keys |-> NoCreate]
  /\ loaded = {}
  /\ lastPush = NoPush
  /\ lastCheck = NoCheck
  /\ docCalls = <<>>
  /\ transport = [p \in NotifIds \X DeviceIds |-> 0]

\* ------------------------------------------------------------ environment
\* time passes
Tick ==
  /\ now < MaxClock
  /\ now' = now + 1
  /\ UNCHANGED <<devices, notifications, deviceStates, pushQueue,
                 faults, serverVars, objVars, docVars>>

\* ---------------------------------------------------------------- devices
\* POST /devices: findOneAndUpdate with upsert, isOnline: true.  pushToken is
\* whether the body has a token.  A body without one gives the update
\* pushToken: undefined, which the Mongoose of the build either leaves out of the
\* update (omitUndefined: the stored token stays) or $sets as null; a body with
\* pushToken: null is stored as null by every build.
RegisterDevice(d, pushToken, omitUndefined) ==
  /\ LET old == {x \in devices : x.deviceId = d}
         token == IF pushToken THEN TRUE
                  ELSE IF omitUndefined THEN \E x \in old : x.pushToken
                  ELSE FALSE
     IN  devices' = (devices \ old)
                      \cup {[deviceId |-> d, pushToken |-> token, isOnline |-> TRUE]}
  /\ UNCHANGED <<now, notifications, deviceStates, pushQueue,
                 faults, serverVars, objVars, docVars>>

\* deviceSchema.methods.setOffline on the document of device d: isOnline = false
\* and save(), which writes the path it modified
SetOffline(d) ==
  /\ \E x \in devices : x.deviceId = d
  /\ devices' = {IF x.deviceId = d THEN [x EXCEPT !.isOnline = FALSE] ELSE x :
                   x \in devices}
  /\ UNCHANGED <<now, notifications, deviceStates, pushQueue,
                 faults, serverVars, objVars, docVars>>

\* ------------------------------------------------------ POST /notifications
\* A request is at one of:
\*   "find"        Device.find applied by the store, its answer on the way
\*   "save"        notification.save() sent to the store
\*   "saved"       notification.save() applied by the store, its answer on the way
\*   "insertMany"  DeviceNotificationState.insertMany sent to the store
\*   "queue"       pushQueue.save() sent to the store
\*   "done"        the response is sent
\* found is the answer of Device.find, date the new Date() of the operation sent.

\* the uuid of a request whose notification is not stored yet: no client has seen it
Unseen(n) == creates[n].pc \in {"find", "save"}

\* Device.find({ userId, isActive: true }): the Device schema has no isActive
\* path, so the filter keeps every device when the Mongoose of the build strips
\* unknown paths from filters (strictQuery) and none when it does not.
ActiveDevices(strictQuery) == IF strictQuery THEN devices ELSE {}

\* devices.filter(d => d.isOnline && d.pushToken)
OnlineDevices(found) == {x \in found : x.isOnline /\ x.pushToken}

\* The request arrives, the id is a fresh uuid, that nothing has used yet, and
\* the store applies Device.find.
CreateNotification(n, strictQuery) ==
  /\ creates[n].pc = "none"
  /\ FindNotification(n) = {}
  /\ \A s \in deviceStates : s.notificationId # n
  /\ \A i \in DOMAIN reqs : reqs[i].notificationId # n
  /\ \A i \in DOMAIN docCalls : docCalls[i].notificationId # n
  /\ creates' = [creates EXCEPT ![n] =
                   [pc |-> "find", found |-> ActiveDevices(strictQuery),
                    date |-> Null, status |-> 0]]
  /\ UNCHANGED <<now, devices, notifications, deviceStates, pushQueue, faults,
                 operationLocks, reqs, lastSync, objVars, docVars>>

\* The answer of Device.find reaches the route: it builds the notification and
\* calls save(), which sets the timestamps of the document and sends it.
CreateFound(n) ==
  /\ creates[n].pc = "find"
  /\ creates' = [creates EXCEPT ![n].pc = "save", ![n].date = now]
  /\ UNCHANGED <<now, devices, notifications, deviceStates, pushQueue, faults,
                 operationLocks, reqs, lastSync, objVars, docVars>>

\* The store applies notification.save(): the notification is stored, and any
\* client can come to know its id.
CreateSave(n) ==
  /\ creates[n].pc = "save"
  /\ notifications' = notifications \cup {NewNotification(n, creates[n].date)}
  /\ creates' = [creates EXCEPT ![n].pc = "saved"]
  /\ UNCHANGED <<now, devices, deviceStates, pushQueue, faults,
                 operationLocks, reqs, lastSync, objVars, docVars>>

\* The answer of save() reaches the route.  With devices found the route builds
\* their states (lastSyncAt: new Date()) and sends insertMany; with none it
\* answers 201.
CreateSaved(n) ==
  /\ creates[n].pc = "saved"
  /\ creates' = [creates EXCEPT ![n] =
                   IF creates[n].found = {}
                   THEN [@ EXCEPT !.pc = "done", !.status = 201]
                   ELSE [@ EXCEPT !.pc = "insertMany", !.date = now]]
  /\ UNCHANGED <<now, devices, notifications, deviceStates, pushQueue, faults,
                 operationLocks, reqs, lastSync, objVars, docVars>>

\* insertMany at the store, ordered: the documents are inserted in the order of
\* the array up to the first one the unique index refuses (a markRead has upserted
\* its pair since the notification was stored), and the route answers 500.  The
\* order of the array is the order of Device.find's answer, which is any.
\* Without a refusal the route sends pushQueue.save() when a device found is
\* online with a token, and answers 201 when none is: it goes by the answer of
\* Device.find it holds.
CreateInsertMany(n) ==
  /\ creates[n].pc = "insertMany"
  /\ LET docs == {NewDeviceState(n, x.deviceId, creates[n].date) : x \in creates[n].found}
         refused == {s \in docs : getDeviceState(n, s.deviceId) # {}}
     IN  IF refused = {}
         THEN /\ deviceStates' = deviceStates \cup docs
              /\ creates' = [creates EXCEPT ![n] =
                               IF OnlineDevices(creates[n].found) = {}
                               THEN [@ EXCEPT !.pc = "done", !.status = 201]
                               ELSE [@ EXCEPT !.pc = "queue"]]
         ELSE /\ \E inserted \in SUBSET (docs \ refused) :
                   deviceStates' = deviceStates \cup inserted
              /\ creates' = [creates EXCEPT ![n].pc = "done", ![n].status = 500]
  /\ UNCHANGED <<now, devices, notifications, pushQueue, faults,
                 operationLocks, reqs, lastSync, objVars, docVars>>

\* the push queue record is stored and the route answers 201
CreateQueue(n) ==
  /\ creates[n].pc = "queue"
  /\ pushQueue' = pushQueue \cup
                    {[notificationId |-> n,
                      deviceIds |-> {x.deviceId : x \in OnlineDevices(creates[n].found)}]}
  /\ creates' = [creates EXCEPT ![n].pc = "done", ![n].status = 201]
  /\ UNCHANGED <<now, devices, notifications, deviceStates, faults,
                 operationLocks, reqs, lastSync, objVars, docVars>>

\* the store is unavailable for the operation the route awaits: the catch of the
\* route answers 500, with what the earlier operations have stored left in place
CreateFault(n) ==
  /\ creates[n].pc \in {"save", "insertMany", "queue"}
  /\ faults < MaxFaults
  /\ faults' = faults + 1
  /\ creates' = [creates EXCEPT ![n].pc = "done", ![n].status = 500]
  /\ UNCHANGED <<now, devices, notifications, deviceStates, pushQueue,
                 operationLocks, reqs, lastSync, objVars, docVars>>

\* ------------------------------------- POST /notifications/:notificationId/read
\* A request is at one of:
\*   "awaitLock"  await operationLocks.get(notificationId)
\*   "step1"      markAsReadAtomic sent to the store
\*   "answer1"    markAsReadAtomic applied by the store, its document on the way
\*   "step2"      Notification.findOneAndUpdate sent to the store
\*   "settle"     the store has answered; the operation's promise is about to settle
\*   "done"       the response is sent
\* date is the new Date() of the operation sent to the store.
Executing(r) == reqs[r].pc \in {"step1", "answer1", "step2", "settle"}

\* the requests whose await of operationLocks.get() got the promise of request r,
\* in the order of their awaits (the order of arrival)
Awaiters(r) == {i \in DOMAIN reqs : reqs[i].pc = "awaitLock" /\ reqs[i].awaiting = r}

\* what the caller could see of the stores when the request arrived
AtCall(n, d) ==
  [projReadAt   |-> IF \E s \in getDeviceState(n, d) : s.isRead
                    THEN (CHOOSE s \in getDeviceState(n, d) : s.isRead).readAt
                    ELSE Null,
   globalReadBy |-> IF \E doc \in FindNotification(n) : doc.isGloballyRead
                    THEN (CHOOSE doc \in FindNotification(n) : TRUE).globalReadByDevice
                    ELSE NoDevice]

\* a serializer with one lock for all keys: the request awaits whatever is pending
Submit_OneLock(n, d, ts) ==
  /\ Len(reqs) < MaxRequests
  /\ ~Unseen(n)
  /\ LET r == Len(reqs) + 1
         held == {k \in Keys : operationLocks[k] # NoLock}
         lock == IF held = {} THEN NoLock ELSE Max({operationLocks[k] : k \in held})
     IN  /\ reqs' = Append(reqs,
                      [notificationId |-> n, deviceId |-> d, timestamp |-> ts,
                       pc |-> IF lock # NoLock THEN "awaitLock" ELSE "step1",
                       awaiting |-> lock,
                       date |-> IF lock # NoLock THEN Null ELSE now,
                       deviceState |-> {}, notification |-> {},
                       error |-> "none", atCall |-> AtCall(n, d),
                       response |-> NoResponse])
         /\ operationLocks' = IF lock # NoLock THEN operationLocks
                              ELSE [operationLocks EXCEPT ![n] = r]
  /\ UNCHANGED <<now, devices, notifications, deviceStates, pushQueue,
                 faults, lastSync, creates, objVars, docVars>>

\* The request arrives and enters executeAtomicOperation: with a lock on the key it
\* awaits the promise in the Map; without one it starts the operation, which builds
\* markAsReadAtomic's query and sends it, and sets the lock.
Submit(n, d, ts) ==
  /\ Len(reqs) < MaxRequests
  /\ ~Unseen(n)
  /\ LET r == Len(reqs) + 1
         lock == operationLocks[n]
     IN  /\ reqs' = Append(reqs,
                      [notificationId |-> n, deviceId |-> d, timestamp |-> ts,
                       pc |-> IF lock # NoLock THEN "awaitLock" ELSE "step1",
                       awaiting |-> lock,
                       date |-> IF lock # NoLock THEN Null ELSE now,
                       deviceState |-> {}, notification |-> {},
                       error |-> "none", atCall |-> AtCall(n, d),
                       response |-> NoResponse])
         /\ operationLocks' = IF lock # NoLock THEN operationLocks
                              ELSE [operationLocks EXCEPT ![n] = r]
  /\ UNCHANGED <<now, devices, notifications, deviceStates, pushQueue,
                 faults, lastSync, creates, objVars, docVars>>

\* The store applies step 1: a duplicate key error, which rejects the operation,
\* or the document as updated or inserted.
Step1(r) ==
  /\ r \in DOMAIN reqs
  /\ reqs[r].pc = "step1"
  /\ LET q == reqs[r]
         res == markAsReadAtomic(q.notificationId, q.deviceId, q.timestamp, q.date)
     IN  /\ deviceStates' = res.states
         /\ reqs' = [reqs EXCEPT ![r] =
                       IF res.error # "none"
                       THEN [q EXCEPT !.pc = "settle", !.error = res.error]
                       ELSE IF res.doc = {}
                       THEN [q EXCEPT !.pc = "settle"]
                       ELSE [q EXCEPT !.pc = "answer1", !.deviceState = res.doc]]
  /\ UNCHANGED <<now, devices, notifications, pushQueue, operationLocks, faults,
                 lastSync, creates, objVars, docVars>>

\* The document of step 1 reaches the operation, which builds step 2 (Mongoose
\* adds updatedAt: new Date() to the update) and sends it.
Step1Answer(r) ==
  /\ r \in DOMAIN reqs
  /\ reqs[r].pc = "answer1"
  /\ reqs' = [reqs EXCEPT ![r].pc = "step2", ![r].date = now]
  /\ UNCHANGED <<now, devices, notifications, deviceStates, pushQueue,
                 operationLocks, faults, lastSync, creates, objVars, docVars>>

\* the store is unavailable for step 1
Step1Fault(r) ==
  /\ r \in DOMAIN reqs
  /\ reqs[r].pc = "step1"
  /\ faults < MaxFaults
  /\ faults' = faults + 1
  /\ reqs' = [reqs EXCEPT ![r].pc = "settle", ![r].error = "storage"]
  /\ UNCHANGED <<now, devices, notifications, deviceStates, pushQueue,
                 operationLocks, lastSync, creates, objVars, docVars>>

\* The store applies step 2.  Its answer settles the operation's promise.
Step2(r) ==
  /\ r \in DOMAIN reqs
  /\ reqs[r].pc = "step2"
  /\ LET q == reqs[r]
         res == markGloballyRead(q.notificationId, q.deviceId, q.timestamp, q.date)
     IN  /\ notifications' = res.notifs
         /\ reqs' = [reqs EXCEPT ![r].pc = "settle", ![r].notification = res.doc]
  /\ UNCHANGED <<now, devices, deviceStates, pushQueue, operationLocks, faults,
                 lastSync, creates, objVars, docVars>>

\* the store is unavailable for step 2
Step2Fault(r) ==
  /\ r \in DOMAIN reqs
  /\ reqs[r].pc = "step2"
  /\ faults < MaxFaults
  /\ faults' = faults + 1
  /\ reqs' = [reqs EXCEPT ![r].pc = "settle", ![r].error = "storage"]
  /\ UNCHANGED <<now, devices, notifications, deviceStates, pushQueue,
                 operationLocks, lastSync, creates, objVars, docVars>>

\* res.status(500).json({ success: false, error: error.message })
ErrorResponse(msg) ==
  [status |-> 500, success |-> FALSE, reason |-> msg, wasFirstGlobalRead |-> FALSE,
   globalReadAt |-> Null]

\* res.json(result) with the result of the operation
ReadResponse(q) ==
  IF q.error # "none" THEN ErrorResponse(q.error)
  ELSE IF q.deviceState = {}
  THEN [status |-> 200, success |-> FALSE,
        reason |-> "failed_to_update_device_state",
        wasFirstGlobalRead |-> FALSE, globalReadAt |-> Null]
  ELSE [status |-> 200, success |-> TRUE, reason |-> "",
        wasFirstGlobalRead |-> (q.notification # {}),
        globalReadAt |-> q.timestamp]

\* what a request awaiting the promise of r does when the promise settles: on a
\* rejection its await throws and its route answers 500 with that error, otherwise
\* it starts its operation without looking at the Map again
Resume(q, settled) ==
  IF settled.error # "none"
  THEN [q EXCEPT !.pc = "done", !.error = settled.error,
                 !.response = ErrorResponse(settled.error)]
  ELSE [q EXCEPT !.pc = "step1", !.awaiting = NoLock, !.date = now]

\* the lock after the promise of r has settled: r deletes the entry of its key, then
\* every resumed request in turn sets it to its own promise
LockAfterSettle(r) ==
  IF reqs[r].error # "none" \/ Awaiters(r) = {} THEN NoLock ELSE Max(Awaiters(r))

\* The promise of r's operation settles.  Its reactions run in one turn of the event
\* loop, in the order they were attached: r's own (the finally block and the
\* response), then the requests awaiting it.
Settle(r) ==
  /\ r \in DOMAIN reqs
  /\ reqs[r].pc = "settle"
  /\ reqs' = [i \in DOMAIN reqs |->
                IF i = r THEN [reqs[r] EXCEPT !.pc = "done",
                                              !.response = ReadResponse(reqs[r])]
                ELSE IF i \in Awaiters(r) THEN Resume(reqs[i], reqs[r])
                ELSE reqs[i]]
  /\ operationLocks' = [operationLocks EXCEPT ![reqs[r].notificationId] =
                          LockAfterSettle(r)]
  /\ UNCHANGED <<now, devices, notifications, deviceStates, pushQueue,
                 faults, lastSync, creates, objVars, docVars>>

\* ------------------------------------------------------ POST /sync/:deviceId
\* A request is at one of:
\*   "find"    Notification.find sent to the store
\*   "update"  Device.updateOne sent to the store
\*   "done"    the response is sent
\* One sync request is in progress at a time.

\* a sync that takes a read state of the device up to the notification
SyncRoute_ReadUp(d, t) ==
  /\ lastSync.seq < MaxSyncs
  /\ lastSync.pc \in {"none", "done"}
  /\ lastSync' = [seq |-> lastSync.seq + 1, deviceId |-> d, lastSyncAt |-> t,
                  pc |-> "done", status |-> 200, found |-> {}, conflicts |-> {}]
  /\ notifications' =
       {IF \E s \in getDeviceState(doc.notificationId, d) : s.isRead
        THEN [doc EXCEPT !.isGloballyRead = TRUE, !.globalReadAt = now,
                         !.globalReadByDevice = d, !.version = @ + 1]
        ELSE doc : doc \in notifications}
  /\ UNCHANGED <<now, devices, deviceStates, pushQueue, operationLocks, reqs,
                 faults, creates, objVars, docVars>>

\* Notification.find({ userId, updatedAt: { $gt: new Date(lastSyncAt) } })
UpdatedSince(t) == {doc \in notifications : doc.updatedAt > t}

\* The request arrives and Device.findOne is answered: without the device the
\* route answers 404, with it the route sends Notification.find.
SyncRoute(d, t) ==
  /\ lastSync.seq < MaxSyncs
  /\ lastSync.pc \in {"none", "done"}
  /\ lastSync' =
       IF \A x \in devices : x.deviceId # d
       THEN [seq |-> lastSync.seq + 1, deviceId |-> d, lastSyncAt |-> t,
             pc |-> "done", status |-> 404, found |-> {}, conflicts |-> {}]
       ELSE [seq |-> lastSync.seq + 1, deviceId |-> d, lastSyncAt |-> t,
             pc |-> "find", status |-> 0, found |-> {}, conflicts |-> {}]
  /\ UNCHANGED <<now, devices, notifications, deviceStates, pushQueue,
                 operationLocks, reqs, faults, creates, objVars, docVars>>

\* Notification.find is answered and the route sends Device.updateOne
SyncFind ==
  /\ lastSync.pc = "find"
  /\ lastSync' = [lastSync EXCEPT !.pc = "update",
                    !.found = {doc.notificationId : doc \in UpdatedSince(lastSync.lastSyncAt)}]
  /\ UNCHANGED <<now, devices, notifications, deviceStates, pushQueue,
                 operationLocks, reqs, faults, creates, objVars, docVars>>

\* Device.updateOne at the store, and the response.  The route maps every
\* notification found with n.deviceStates.find(...), and the Notification schema
\* has no deviceStates: a non-empty result throws a TypeError, answered 500.  No
\* DeviceNotificationState is read or written, and the response carries no
\* conflicts.
SyncUpdate ==
  /\ lastSync.pc = "update"
  /\ devices' = {IF x.deviceId = lastSync.deviceId THEN [x EXCEPT !.isOnline = TRUE]
                 ELSE x : x \in devices}
  /\ lastSync' = [lastSync EXCEPT !.pc = "done",
                    !.status = IF lastSync.found # {} THEN 500 ELSE 200]
  /\ UNCHANGED <<now, notifications, deviceStates, pushQueue,
                 operationLocks, reqs, faults, creates, objVars, docVars>>

\* ------------------------------------------- the Notification document methods
\* Notification.findOne({ notificationId }): the caller holds a document object,
\* a copy of the stored document
LoadNotification(n) ==
  /\ FindNotification(n) # {}
  /\ loaded' = FindNotification(n)
  /\ lastPush' = NoPush
  /\ UNCHANGED <<now, devices, notifications, deviceStates, pushQueue, faults,
                 serverVars, lastCheck, docVars>>

\* markPushSent called on the document object: it assigns to the object and does
\* not save it, the stored document stays as it is
MarkPushSent(d) ==
  /\ \E doc \in loaded :
       /\ loaded' = {markPushSent(doc, d)}
       /\ lastPush' = [notificationId |-> doc.notificationId, deviceId |-> d,
                       included |-> Includes(doc.pushSentTo, d)]
  /\ UNCHANGED <<now, devices, notifications, deviceStates, pushQueue, faults,
                 serverVars, lastCheck, docVars>>

\* shouldSendPushToDevice called on the document object; it reads the object and
\* returns, without assigning to it or saving it
ShouldSendPush(d) ==
  /\ \E doc \in loaded :
       lastCheck' = [notificationId |-> doc.notificationId, deviceId |-> d,
                     returned |-> shouldSendPushToDevice(doc, d)]
  /\ UNCHANGED <<now, devices, notifications, deviceStates, pushQueue, faults,
                 serverVars, loaded, lastPush, docVars>>

\* ------------------------------------------ the functions the README documents
\* A call is a record of docCalls; fn is "markRead", "sendPush" or "sync", arg the
\* timestamp (markRead) or lastSyncAt (sync), date the new Date() of the operation
\* sent to the store, found the documents the store has answered, and pc "done"
\* once the call has returned or thrown.
DocCall(fn, n, d, arg, pc, date, found, result) ==
  [fn |-> fn, notificationId |-> n, deviceId |-> d, arg |-> arg, pc |-> pc,
   date |-> date, found |-> found, result |-> result]

\* markNotificationAsRead, step 1 filter: { readAt: null } or { readAt: { $lt: timestamp } }
docReadMatch(s, ts) == s.readAt = Null \/ s.readAt < ts

\* markNotificationAsRead, step 2 filter: { isGloballyRead: false } or
\* { globalReadAt: { $lt: timestamp } }
docGlobalReadFilter(doc, ts) ==
  \/ doc.isGloballyRead = FALSE
  \/ doc.globalReadAt # Null /\ doc.globalReadAt < ts

\* markNotificationAsRead is called: it builds step 1 and sends it
DocMarkRead(n, d, ts) ==
  /\ Len(docCalls) < MaxDocCalls
  /\ ~Unseen(n)
  /\ docCalls' = Append(docCalls, DocCall("markRead", n, d, ts, "step1", now, {}, ""))
  /\ UNCHANGED <<now, devices, notifications, deviceStates, pushQueue, faults,
                 serverVars, objVars, transport>>

\* The store applies step 1 of markNotificationAsRead (findOneAndUpdate, no
\* upsert).  Without a document the function returns stale_update.
DocMarkReadStep1(c) ==
  /\ c \in DOMAIN docCalls
  /\ docCalls[c].fn = "markRead" /\ docCalls[c].pc = "step1"
  /\ LET q == docCalls[c]
         matched == {s \in getDeviceState(q.notificationId, q.deviceId) :
                       docReadMatch(s, q.arg)}
     IN  IF matched # {}
         THEN LET old == CHOOSE s \in matched : TRUE
                  new == [old EXCEPT !.isRead = TRUE, !.readAt = q.arg,
                                     !.lastSyncAt = q.date, !.version = @ + 1]
              IN  /\ deviceStates' = (deviceStates \ {old}) \cup {new}
                  /\ docCalls' = [docCalls EXCEPT ![c].pc = "answer1",
                                                  ![c].found = {new}]
         ELSE /\ deviceStates' = deviceStates
              /\ docCalls' = [docCalls EXCEPT ![c].pc = "done",
                                              ![c].result = "stale_update"]
  /\ UNCHANGED <<now, devices, notifications, pushQueue, faults,
                 serverVars, objVars, transport>>

\* The document of step 1 reaches markNotificationAsRead, which builds step 2
\* (updatedAt: new Date()) and sends it.
DocMarkReadAnswer1(c) ==
  /\ c \in DOMAIN docCalls
  /\ docCalls[c].fn = "markRead" /\ docCalls[c].pc = "answer1"
  /\ docCalls' = [docCalls EXCEPT ![c].pc = "step2", ![c].date = now]
  /\ UNCHANGED <<now, devices, notifications, deviceStates, pushQueue, faults,
                 serverVars, objVars, transport>>

\* The store applies step 2 of markNotificationAsRead, and the function returns.
DocMarkReadStep2(c) ==
  /\ c \in DOMAIN docCalls
  /\ docCalls[c].fn = "markRead" /\ docCalls[c].pc = "step2"
  /\ LET q == docCalls[c]
         matched == {doc \in FindNotification(q.notificationId) :
                       docGlobalReadFilter(doc, q.arg)}
     IN  /\ notifications' =
              IF matched = {} THEN notifications
              ELSE LET old == CHOOSE doc \in matched : TRUE
                   IN  (notifications \ {old}) \cup
                         {[old EXCEPT !.isGloballyRead = TRUE, !.globalReadAt = q.arg,
                                      !.globalReadByDevice = q.deviceId,
                                      !.version = @ + 1, !.updatedAt = q.date]}
         /\ docCalls' = [docCalls EXCEPT ![c].pc = "done", ![c].result = "success"]
  /\ UNCHANGED <<now, devices, deviceStates, pushQueue, faults,
                 serverVars, objVars, transport>>

\* sendPushNotification is called and the store applies Notification.findOne.
\* The two checks go by the document it answers, and a call they stop returns.
DocSendPush(n, d) ==
  /\ Len(docCalls) < MaxDocCalls
  /\ ~Unseen(n)
  /\ LET found == FindNotification(n)
         verdict == IF found = {} THEN "TypeError"
                    ELSE IF \E doc \in found : doc.isGloballyRead THEN "already_read"
                    ELSE IF \E doc \in found : Includes(doc.pushSentTo, d)
                    THEN "already_sent"
                    ELSE ""
     IN  docCalls' = Append(docCalls,
                       DocCall("sendPush", n, d, Null,
                               IF verdict = "" THEN "found" ELSE "done",
                               Null, found, verdict))
  /\ UNCHANGED <<now, devices, notifications, deviceStates, pushQueue, faults,
                 serverVars, objVars, transport>>

\* The document reaches sendPushNotification and passes the two checks: the
\* function builds the updateOne (updatedAt: new Date()) and sends it.
DocSendPushFound(c) ==
  /\ c \in DOMAIN docCalls
  /\ docCalls[c].fn = "sendPush" /\ docCalls[c].pc = "found"
  /\ docCalls' = [docCalls EXCEPT ![c].pc = "mark", ![c].date = now]
  /\ UNCHANGED <<now, devices, notifications, deviceStates, pushQueue, faults,
                 serverVars, objVars, transport>>

\* updateOne({ notificationId }, { $addToSet: { pushSentTo: deviceId } }), with the
\* updatedAt of the schema's timestamps
addToSetPushSentTo(doc, d, date) ==
  [doc EXCEPT !.pushSentTo = IF Includes(@, d) THEN @ ELSE Append(@, d),
              !.updatedAt = date]

\* The store applies the updateOne: the device is marked as sent.
DocMarkSent(c) ==
  /\ c \in DOMAIN docCalls
  /\ docCalls[c].fn = "sendPush" /\ docCalls[c].pc = "mark"
  /\ notifications' =
       {IF doc.notificationId = docCalls[c].notificationId
        THEN addToSetPushSentTo(doc, docCalls[c].deviceId, docCalls[c].date) ELSE doc :
          doc \in notifications}
  /\ docCalls' = [docCalls EXCEPT ![c].pc = "marked"]
  /\ UNCHANGED <<now, devices, deviceStates, pushQueue, faults, serverVars, objVars,
                 transport>>

\* The answer of the updateOne reaches sendPushNotification, which invokes
\* pushService.send.
DocInvoke(c) ==
  /\ c \in DOMAIN docCalls
  /\ docCalls[c].fn = "sendPush" /\ docCalls[c].pc = "marked"
  /\ transport' = [transport EXCEPT
                     ![<<docCalls[c].notificationId, docCalls[c].deviceId>>] = @ + 1]
  /\ docCalls' = [docCalls EXCEPT ![c].pc = "send"]
  /\ UNCHANGED <<now, devices, notifications, deviceStates, pushQueue, faults,
                 serverVars, objVars>>

\* pushService.send succeeds or throws
DocTransport(c, ok) ==
  /\ c \in DOMAIN docCalls
  /\ docCalls[c].fn = "sendPush" /\ docCalls[c].pc = "send"
  /\ docCalls' = [docCalls EXCEPT ![c].pc = "done",
                    ![c].result = IF ok THEN "sent" ELSE "transport_error"]
  /\ UNCHANGED <<now, devices, notifications, deviceStates, pushQueue, faults,
                 serverVars, objVars, transport>>

\* syncDevice is called and the store applies DeviceNotificationState.find({
\* deviceId, lastSyncAt: { $gt } }), which the query is to populate('notification').
\* The DeviceNotificationState schema has no path or virtual notification.  With
\* no state found there is nothing to populate and the function returns empty
\* lists.  With a state found, the Mongoose of the build either rejects the query
\* (strictPopulate: StrictPopulateError) or leaves the states as they are, and
\* the first turn of the loop throws a TypeError on state.notification
\* .isGloballyRead.  Either way the function throws before its updateOne: it
\* writes nothing.
DocSync(d, t, strictPopulate) ==
  /\ Len(docCalls) < MaxDocCalls
  /\ LET found == {s \in deviceStates : s.deviceId = d /\ s.lastSyncAt > t}
     IN  docCalls' = Append(docCalls,
                       DocCall("sync", "", d, t, "done", Null, found,
                               IF found = {} THEN ""
                               ELSE IF strictPopulate THEN "StrictPopulateError"
                               ELSE "TypeError"))
  /\ UNCHANGED <<now, devices, notifications, deviceStates, pushQueue, faults,
                 serverVars, objVars, transport>>

\* ------------------------------------------------------------ specification
SpecTimestamps == {1}   \* the timestamps of the markRead calls under Spec

\* The read route on a store that answers every operation.
Next ==
  \/ \E d \in Registering, omitUndefined \in BOOLEAN : RegisterDevice(d, TRUE, omitUndefined)
  \/ \E n \in NotifIds, strictQuery \in BOOLEAN : CreateNotification(n, strictQuery)
  \/ \E n \in NotifIds : CreateFound(n)
  \/ \E n \in NotifIds : CreateSave(n)
  \/ \E n \in NotifIds : CreateSaved(n)
  \/ \E n \in NotifIds : CreateInsertMany(n)
  \/ \E n \in NotifIds : CreateQueue(n)
  \/ \E n \in NotifIds, d \in DeviceIds, ts \in SpecTimestamps : Submit(n, d, ts)
  \/ \E r \in 1..MaxRequests : Step1(r)
  \/ \E r \in 1..MaxRequests : Step1Answer(r)
  \/ \E r \in 1..MaxRequests : Step2(r)
  \/ \E r \in 1..MaxRequests : Settle(r)

Spec == Init /\ [][Next]_vars

\* --------------------------------------------- the read route on two timestamps
DateReaders == {"D1", "D2"}   \* the devices that send markRead under DateSpec

DateNext ==
  \/ \E d \in Registering, pushToken \in BOOLEAN, omitUndefined \in BOOLEAN :
       RegisterDevice(d, pushToken, omitUndefined)
  \/ \E d \in Registering : SetOffline(d)
  \/ \E n \in NotifIds, strictQuery \in BOOLEAN : CreateNotification(n, strictQuery)
  \/ \E n \in NotifIds : CreateFound(n)
  \/ \E n \in NotifIds : CreateSave(n)
  \/ \E n \in NotifIds : CreateSaved(n)
  \/ \E n \in NotifIds : CreateInsertMany(n)
  \/ \E n \in NotifIds : CreateQueue(n)
  \/ /\ Len(reqs) < MaxDateReads
     /\ \E n \in NotifIds, d \in DateReaders, ts \in Timestamps : Submit(n, d, ts)
  \/ \E r \in 1..MaxRequests : Step1(r)
  \/ \E r \in 1..MaxRequests : Step1Answer(r)
  \/ \E r \in 1..MaxRequests : Step2(r)
  \/ \E r \in 1..MaxRequests : Settle(r)

DateSpec == Init /\ [][DateNext]_vars

\* ================================================================== claims
RequestsOn(n) == {r \in DOMAIN reqs : reqs[r].notificationId = n}

\* C1: for any number of concurrent executeAtomicOperation calls with the same key,
\* at most one of their operations is executing at any moment.
C1_MutualExclusion ==
  \A n \in Keys : Cardinality({r \in RequestsOn(n) : Executing(r)}) <= 1

\* C2: when the markRead calls on one existing, initially unread notification come
\* from distinct devices and have all returned, exactly one of them returned
\* wasFirstGlobalRead = true and every other one returned success with
\* wasFirstGlobalRead = false.
C2_ExactlyOneFirstGlobalRead ==
  \A n \in NotifIds :
    ( /\ FindNotification(n) # {}
      /\ RequestsOn(n) # {}
      /\ \A r \in RequestsOn(n) : reqs[r].pc = "done"
      /\ \A r1, r2 \in RequestsOn(n) :
           r1 # r2 => reqs[r1].deviceId # reqs[r2].deviceId )
    => /\ \A r \in RequestsOn(n) :
            reqs[r].response.status = 200 /\ reqs[r].response.success
       /\ Cardinality({r \in RequestsOn(n) :
                         reqs[r].response.wasFirstGlobalRead}) = 1

\* three calls from three devices on an existing notification have all returned
C2_Witness ==
  /\ FindNotification("N1") # {}
  /\ Cardinality(RequestsOn("N1")) = 3
  /\ \A r \in RequestsOn("N1") : reqs[r].pc = "done"
  /\ {reqs[r].deviceId : r \in RequestsOn("N1")} = DeviceIds

\* C3: once a notification is globally read, no step of a markRead, of the route
\* or of the documented markNotificationAsRead, changes its isGloballyRead,
\* globalReadAt or globalReadByDevice.
C3_GlobalReadWriteOnce ==
  [][\A doc \in notifications :
       doc.isGloballyRead =>
         \E after \in notifications' :
           /\ after.notificationId = doc.notificationId
           /\ after.isGloballyRead
           /\ after.globalReadAt = doc.globalReadAt
           /\ after.globalReadByDevice = doc.globalReadByDevice]_vars

\* C4: a markRead by a device whose projection is unread, on a notification another
\* device has made globally read, returns success with wasFirstGlobalRead = false,
\* that device's state is read with readAt the call's timestamp, and the global
\* record is as it was.  (The device has no other call.)
C4_ReadOnGloballyReadSucceeds ==
  \A r \in DOMAIN reqs :
    LET q == reqs[r] IN
    ( /\ q.pc = "done"
      /\ q.atCall.projReadAt = Null
      /\ q.atCall.globalReadBy \notin {NoDevice, q.deviceId}
      /\ \A i \in DOMAIN reqs : i # r => reqs[i].deviceId # q.deviceId )
    => /\ q.response.status = 200
       /\ q.response.success
       /\ ~q.response.wasFirstGlobalRead
       /\ \E s \in getDeviceState(q.notificationId, q.deviceId) :
            s.isRead /\ s.readAt = q.timestamp
       /\ \E doc \in FindNotification(q.notificationId) :
            doc.isGloballyRead /\ doc.globalReadByDevice = q.atCall.globalReadBy

\* C5: a markRead for a pair whose state is read with readAt equal to or later than
\* the call's timestamp is answered with a result, success = false, and never with
\* an exception or an error status.
C5_StaleUpdateIsResult ==
  \A r \in DOMAIN reqs :
    LET q == reqs[r] IN
    ( /\ q.pc = "done"
      /\ q.atCall.projReadAt # Null
      /\ q.atCall.projReadAt >= q.timestamp )
    => /\ q.response.status = 200
       /\ ~q.response.success
       /\ q.error = "none"

\* C6: step 1 of a markRead whose (notificationId, deviceId, timestamp) an earlier
\* call has applied already changes neither collection, and the call goes no further.
C6_MarkReadIdempotent ==
  [][\A r \in DOMAIN reqs :
       ( /\ reqs[r].pc = "step1"
         /\ reqs'[r].pc # "step1"
         /\ \E s \in getDeviceState(reqs[r].notificationId, reqs[r].deviceId) :
              s.isRead /\ s.readAt = reqs[r].timestamp )
       => /\ deviceStates' = deviceStates
          /\ notifications' = notifications
          /\ reqs'[r].pc = "settle"]_vars

\* the second call with the same triple has run its step 1
C6_Witness ==
  \E r1, r2 \in DOMAIN reqs :
    /\ r1 < r2
    /\ reqs[r1].notificationId = reqs[r2].notificationId
    /\ reqs[r1].deviceId = reqs[r2].deviceId
    /\ reqs[r1].timestamp = reqs[r2].timestamp
    /\ reqs[r1].pc = "done" /\ reqs[r1].response.success
    /\ reqs[r2].pc = "settle"
    /\ \E s \in getDeviceState(reqs[r2].notificationId, reqs[r2].deviceId) :
         s.isRead /\ s.readAt = reqs[r2].timestamp /\ s.version = 1

\* ------------------------------------------------- the sync route and time
SyncReaders == {"D2"}   \* the devices that send markRead under SyncSpec

SyncNext ==
  \/ Tick
  \/ \E d \in Registering, pushToken \in BOOLEAN, omitUndefined \in BOOLEAN :
       RegisterDevice(d, pushToken, omitUndefined)
  \/ \E d \in Registering : SetOffline(d)
  \/ \E n \in NotifIds, strictQuery \in BOOLEAN : CreateNotification(n, strictQuery)
  \/ \E n \in NotifIds : CreateFound(n)
  \/ \E n \in NotifIds : CreateSave(n)
  \/ \E n \in NotifIds : CreateSaved(n)
  \/ \E n \in NotifIds : CreateInsertMany(n)
  \/ \E n \in NotifIds : CreateQueue(n)
  \/ /\ Len(reqs) < MaxSyncReads
     /\ \E n \in NotifIds, d \in SyncReaders, ts \in Timestamps : Submit(n, d, ts)
  \/ \E r \in 1..MaxRequests : Step1(r)
  \/ \E r \in 1..MaxRequests : Step1Answer(r)
  \/ \E r \in 1..MaxRequests : Step2(r)
  \/ \E r \in 1..MaxRequests : Settle(r)
  \/ \E d \in DeviceIds, t \in 0..MaxClock : SyncRoute(d, t)
  \/ SyncFind
  \/ SyncUpdate

SyncSpec == Init /\ [][SyncNext]_vars

\* C7: after the markRead calls on a notification have settled with at least one
\* success, a sync by a registered device, when it is answered, leaves that
\* device's stored projection of the notification read, whatever lastSyncAt it
\* passes.
C7_SyncConverges ==
  [][\A n \in NotifIds :
       ( /\ lastSync' # lastSync
         /\ lastSync'.pc = "done"
         /\ \E x \in devices : x.deviceId = lastSync'.deviceId
         /\ FindNotification(n) # {}
         /\ \A r \in RequestsOn(n) : reqs[r].pc = "done"
         /\ \E r \in RequestsOn(n) : reqs[r].response.success )
       => \E s \in deviceStates' :
            /\ s.notificationId = n
            /\ s.deviceId = lastSync'.deviceId
            /\ s.isRead]_vars

\* C8: when sync has found a notification that is globally read at T while the
\* syncing device's state is unread, the response lists it in conflicts and the
\* stored state after the answer is read with readAt = T.
C8_SyncRepairsConflict ==
  [][\A doc \in notifications, s \in deviceStates :
       ( /\ lastSync' # lastSync
         /\ lastSync'.pc = "done"
         /\ doc.notificationId \in lastSync'.found
         /\ doc.isGloballyRead
         /\ s.notificationId = doc.notificationId
         /\ s.deviceId = lastSync'.deviceId
         /\ ~s.isRead )
       => /\ doc.notificationId \in lastSync'.conflicts
          /\ \E after \in deviceStates' :
               /\ after.notificationId = s.notificationId
               /\ after.deviceId = s.deviceId
               /\ after.isRead
               /\ after.readAt = doc.globalReadAt]_vars

\* ------------------------------------------------- the documented functions
DocDevices == {"D1"}   \* the devices of the calls under DocSpec

DocNext ==
  \/ Tick
  \/ \E d \in Registering, omitUndefined \in BOOLEAN : RegisterDevice(d, TRUE, omitUndefined)
  \/ \E n \in NotifIds, strictQuery \in BOOLEAN : CreateNotification(n, strictQuery)
  \/ \E n \in NotifIds : CreateFound(n)
  \/ \E n \in NotifIds : CreateSave(n)
  \/ \E n \in NotifIds : CreateSaved(n)
  \/ \E n \in NotifIds : CreateInsertMany(n)
  \/ \E n \in NotifIds : CreateQueue(n)
  \/ \E n \in NotifIds, d \in DocDevices, ts \in Timestamps : DocMarkRead(n, d, ts)
  \/ \E c \in 1..MaxDocCalls : DocMarkReadStep1(c)
  \/ \E c \in 1..MaxDocCalls : DocMarkReadAnswer1(c)
  \/ \E c \in 1..MaxDocCalls : DocMarkReadStep2(c)
  \/ \E n \in NotifIds, d \in DocDevices : DocSendPush(n, d)
  \/ \E c \in 1..MaxDocCalls : DocSendPushFound(c)
  \/ \E c \in 1..MaxDocCalls : DocMarkSent(c)
  \/ \E c \in 1..MaxDocCalls : DocInvoke(c)
  \/ \E c \in 1..MaxDocCalls, ok \in BOOLEAN : DocTransport(c, ok)
  \/ \E d \in DocDevices, t \in 0..MaxClock, strictPopulate \in BOOLEAN :
          DocSync(d, t, strictPopulate)

DocSpec == Init /\ [][DocNext]_vars

\* C9: for any interleaving of sendPushNotification calls for one notification and
\* one device, the push transport is invoked at most once for the pair.
C9_TransportAtMostOnce ==
  \A p \in NotifIds \X DeviceIds : transport[p] <= 1

\* ------------------------------------------------------ the push dedup set
PushReaders    == {"D1"}   \* the devices that send markRead under PushSpec
PushTimestamps == {1}      \* and the timestamps they send

PushNext ==
  \/ Tick
  \/ \E n \in NotifIds, strictQuery \in BOOLEAN : CreateNotification(n, strictQuery)
  \/ \E n \in NotifIds : CreateFound(n)
  \/ \E n \in NotifIds : CreateSave(n)
  \/ \E n \in NotifIds : CreateSaved(n)
  \/ /\ Len(reqs) < MaxPushReads
     /\ \E n \in NotifIds, d \in PushReaders, ts \in PushTimestamps : Submit(n, d, ts)
  \/ \E r \in 1..MaxRequests : Step1(r)
  \/ \E r \in 1..MaxRequests : Step1Answer(r)
  \/ \E r \in 1..MaxRequests : Step2(r)
  \/ \E r \in 1..MaxRequests : Settle(r)
  \/ \E n \in NotifIds : LoadNotification(n)
  \/ \E d \in DeviceIds : MarkPushSent(d)

PushSpec == Init /\ [][PushNext]_vars

\* C10: whatever number of markPushSent calls a Notification document has had, no
\* device id is in its pushSentTo more than once, the device of the last call is
\* in it exactly once, and shouldSendPushToDevice is false for every device in it.
C10_PushSentOnce ==
  \A doc \in loaded :
    /\ \A d \in DeviceIds :
         /\ Count(doc.pushSentTo, d) <= 1
         /\ Includes(doc.pushSentTo, d) => ~shouldSendPushToDevice(doc, d)
    /\ lastPush.notificationId = doc.notificationId
         => Count(doc.pushSentTo, lastPush.deviceId) = 1

\* markPushSent has been called for a device that was in pushSentTo already, on a
\* document that is not globally read and lists two devices
C10_Witness ==
  \E doc \in loaded :
    /\ lastPush.notificationId = doc.notificationId
    /\ lastPush.included
    /\ ~doc.isGloballyRead
    /\ Len(doc.pushSentTo) >= 2

\* --------------------------------------------- the push check, on any document
\* the pushSentTo lists markPushSent can have built: no device twice
SentLists ==
  {l \in UNION {[1..k -> DeviceIds] : k \in 0..MaxSent} :
     \A i, j \in DOMAIN l : i # j => l[i] # l[j]}

\* the document objects of notification n that a caller can hold: the notification
\* as created or as the read route has updated it, with any number of markPushSent
\* calls on the object
PushDocs(n) ==
  {[NewNotification(n, now) EXCEPT !.pushSentTo = l,
                              !.pushSentAt = IF l = <<>> THEN Null ELSE now] :
     l \in SentLists}
  \cup
  {[NewNotification(n, now) EXCEPT !.pushSentTo = l,
                              !.pushSentAt = IF l = <<>> THEN Null ELSE now,
                              !.isGloballyRead = TRUE, !.globalReadAt = ts,
                              !.globalReadByDevice = d, !.version = 2] :
     l \in SentLists, d \in DeviceIds, ts \in Timestamps}

\* the document as it was loaded: markPushSent is not saved
AsLoaded(doc) == [doc EXCEPT !.pushSentTo = <<>>, !.pushSentAt = Null]

\* the server with one notification stored, created when no device was registered,
\* and a caller holding any of these document objects of it
CheckInit ==
  /\ now = 1
  /\ devices = {}
  /\ \E n \in NotifIds :
     \E doc \in PushDocs(n) :
       /\ loaded = {doc}
       /\ notifications = {AsLoaded(doc)}
       /\ creates = [k \in Keys |-> IF k = n THEN [NoCreate EXCEPT !.pc = "done",
                                                                 !.status = 201]
                                     ELSE NoCreate]
  /\ deviceStates = {}
  /\ pushQueue = {}
  /\ operationLocks = [n \in Keys |-> NoLock]
  /\ reqs = <<>>
  /\ faults = 0
  /\ lastSync = NoSync
  /\ lastPush = NoPush
  /\ lastCheck = NoCheck
  /\ docCalls = <<>>
  /\ transport = [p \in NotifIds \X DeviceIds |-> 0]

CheckNext == \E d \in DeviceIds : ShouldSendPush(d)

CheckSpec == CheckInit /\ [][CheckNext]_vars

\* C11: shouldSendPushToDevice returns true exactly when the device id is not in
\* pushSentTo and the notification is not globally read, whatever the document
\* and the device id, and the call changes neither the document nor a collection.
C11_ShouldSendPushPure ==
  [][lastCheck' # lastCheck =>
       /\ \E doc \in loaded :
            /\ doc.notificationId = lastCheck'.notificationId
            /\ lastCheck'.returned =
                 (~Includes(doc.pushSentTo, lastCheck'.deviceId) /\ ~doc.isGloballyRead)
       /\ UNCHANGED <<devices, notifications, deviceStates, pushQueue, loaded>>]_vars

\* the check has returned true for a device on a document that lists every other
\* device the list can hold
C11_Witness ==
  \E doc \in loaded :
    /\ lastCheck.notificationId = doc.notificationId
    /\ lastCheck.returned
    /\ Len(doc.pushSentTo) = Cardinality(DeviceIds) - 1
    /\ ~Includes(doc.pushSentTo, lastCheck.deviceId)

\* ------------------------------------------------ every writer of a version
VersionReaders == {"D1"}   \* the device that reads, is pushed to and syncs
SyncSince      == {0}      \* the lastSyncAt it passes

VersionNext ==
  \/ \E d \in Registering, omitUndefined \in BOOLEAN : RegisterDevice(d, TRUE, omitUndefined)
  \/ \E n \in NotifIds, strictQuery \in BOOLEAN : CreateNotification(n, strictQuery)
  \/ \E n \in NotifIds : CreateFound(n)
  \/ \E n \in NotifIds : CreateSave(n)
  \/ \E n \in NotifIds : CreateSaved(n)
  \/ \E n \in NotifIds : CreateInsertMany(n)
  \/ \E n \in NotifIds : CreateQueue(n)
  \/ /\ Len(reqs) < MaxVersionReads
     /\ \E n \in NotifIds, d \in VersionReaders, ts \in Timestamps : Submit(n, d, ts)
  \/ \E r \in 1..MaxRequests : Step1(r)
  \/ \E r \in 1..MaxRequests : Step1Answer(r)
  \/ \E r \in 1..MaxRequests : Step2(r)
  \/ \E r \in 1..MaxRequests : Settle(r)
  \/ \E n \in NotifIds : LoadNotification(n)
  \/ \E d \in VersionReaders : MarkPushSent(d)
  \/ \E d \in VersionReaders, t \in SyncSince : SyncRoute(d, t)
  \/ SyncFind
  \/ SyncUpdate

VersionSpec == Init /\ [][VersionNext]_vars

\* C12: no step of notification creation, markRead, markPushSent or sync lowers
\* the version of a stored notification, of a Notification document a caller
\* holds or of a stored device state.
C12_VersionNeverDecreases ==
  [][/\ \A doc \in notifications, after \in notifications' :
          after.notificationId = doc.notificationId => after.version >= doc.version
     /\ \A doc \in loaded, after \in loaded' :
          after.notificationId = doc.notificationId => after.version >= doc.version
     /\ \A s \in deviceStates, after \in deviceStates' :
          (after.notificationId = s.notificationId /\ after.deviceId = s.deviceId)
            => after.version >= s.version]_vars

\* a device state of the fan-out has been marked read twice, its notification is
\* globally read, markPushSent has been called on a document of it loaded since,
\* and the device has synced
C12_Witness ==
  /\ \E s \in deviceStates : s.version = 3
  /\ \E doc \in notifications : doc.version = 2
  /\ \E doc \in loaded : doc.version = 2 /\ doc.pushSentTo # <<>>
  /\ lastSync.seq > 0 /\ lastSync.pc = "done"

\* ------------------------------------------- the serializer and the read route
\* C13: of two requests with one key, the one that arrived first has finished
\* before the operation of the other one executes.
C13_FifoOrder ==
  \A r1, r2 \in DOMAIN reqs :
    ( /\ r1 < r2
      /\ reqs[r1].notificationId = reqs[r2].notificationId
      /\ Executing(r2) )
    => reqs[r1].pc = "done"

\* C14: when the operation holding a key settles with an error, every request
\* awaiting it goes on to run its own operation, and none is answered with that
\* error.
C14_FailureReleasesKey ==
  [][\A r \in DOMAIN reqs :
       ( /\ reqs[r].pc = "settle"
         /\ reqs'[r].pc = "done"
         /\ reqs[r].error # "none" )
       => \A q \in Awaiters(r) :
            /\ reqs'[q].pc = "step1"
            /\ reqs'[q].error = "none"
            /\ reqs'[q].response = NoResponse]_vars

\* C15: a request awaiting a lock can leave the wait by a step of its own, one
\* that needs no progress of the operation it awaits (the end of a bounded wait).
C15_BoundedWait ==
  \A q \in DOMAIN reqs :
    reqs[q].pc = "awaitLock" =>
      ENABLED ( /\ Next
                /\ reqs'[q].pc # "awaitLock"
                /\ reqs'[reqs[q].awaiting] = reqs[reqs[q].awaiting] )

\* C17: a markRead whose notificationId no notification has is answered 404, and
\* no device state of that notification is stored.
C17_UnknownNotificationNotFound ==
  \A r \in DOMAIN reqs :
    ( /\ reqs[r].pc = "done"
      /\ FindNotification(reqs[r].notificationId) = {} )
    => /\ reqs[r].response.status = 404
       /\ \A s \in deviceStates : s.notificationId # reqs[r].notificationId

\* C18: a markRead by a device whose state is unread, with a timestamp earlier
\* than the globalReadAt another device has set, is rejected and leaves that
\* device's state unread.  (The device has no other call.)
C18_EarlierReadOfOtherDeviceRejected ==
  \A r \in DOMAIN reqs :
    LET q == reqs[r] IN
    ( /\ q.pc = "done"
      /\ q.atCall.projReadAt = Null
      /\ q.atCall.globalReadBy \notin {NoDevice, q.deviceId}
      /\ \E doc \in FindNotification(q.notificationId) : q.timestamp < doc.globalReadAt
      /\ \A i \in DOMAIN reqs : i # r => reqs[i].deviceId # q.deviceId )
    => /\ ~q.response.success
       /\ \A s \in getDeviceState(q.notificationId, q.deviceId) : ~s.isRead

\* ------------------------------------------------------- requests on two keys
KeyReaders    == {"D1"}   \* the devices that send markRead under KeySpec
KeyTimestamps == {1}      \* and the timestamps they send

KeyNext ==
  \/ \E n \in Keys, strictQuery \in BOOLEAN : CreateNotification(n, strictQuery)
  \/ \E n \in Keys : CreateFound(n)
  \/ \E n \in Keys : CreateSave(n)
  \/ \E n \in Keys : CreateSaved(n)
  \/ \E n \in Keys, d \in KeyReaders, ts \in KeyTimestamps : Submit(n, d, ts)
  \/ \E r \in 1..MaxRequests : Step1(r)
  \/ \E r \in 1..MaxRequests : Step1Answer(r)
  \/ \E r \in 1..MaxRequests : Step2(r)
  \/ \E r \in 1..MaxRequests : Settle(r)

KeySpec == Init /\ [][KeyNext]_vars

\* C16: a request that arrives when every earlier request of its own key has been
\* answered starts its operation at once, whatever is executing or queued on
\* another key, and no step of a request changes a request of another key.
C16_KeysIndependent ==
  [][/\ Len(reqs') = Len(reqs) + 1 =>
          LET r == Len(reqs') IN
          (\A i \in RequestsOn(reqs'[r].notificationId) : reqs[i].pc = "done")
            => reqs'[r].pc = "step1"
     /\ \A r \in DOMAIN reqs :
          (Executing(r) /\ reqs'[r] # reqs[r]) =>
            \A i \in DOMAIN reqs :
              reqs[i].notificationId # reqs[r].notificationId => reqs'[i] = reqs[i]]_vars

\* a first request on N1 is executing; it arrived while N2 had an operation
\* executing and a request queued behind it
C16_Witness ==
  \E r, i, j \in DOMAIN reqs :
    /\ i < j /\ j < r
    /\ reqs[r].notificationId = "N1" /\ reqs[r].pc = "step1"
    /\ reqs[i].notificationId = "N2" /\ Executing(i)
    /\ reqs[j].notificationId = "N2" /\ reqs[j].pc = "awaitLock"

\* ------------------------------------------------- the read flags and dates
\* The route takes the timestamp of the body as it comes: the default new Date()
\* replaces an absent timestamp, not a null one.
BodyReaders    == {"D1"}       \* the devices that send markRead under BodySpec
BodyTimestamps == {Null, 1}    \* timestamp: null, or an instant

BodyNext ==
  \/ \E d \in Registering, pushToken \in BOOLEAN, omitUndefined \in BOOLEAN :
       RegisterDevice(d, pushToken, omitUndefined)
  \/ \E d \in Registering : SetOffline(d)
  \/ \E n \in NotifIds, strictQuery \in BOOLEAN : CreateNotification(n, strictQuery)
  \/ \E n \in NotifIds : CreateFound(n)
  \/ \E n \in NotifIds : CreateSave(n)
  \/ \E n \in NotifIds : CreateSaved(n)
  \/ \E n \in NotifIds : CreateInsertMany(n)
  \/ \E n \in NotifIds : CreateQueue(n)
  \/ \E n \in NotifIds, d \in BodyReaders, ts \in BodyTimestamps : Submit(n, d, ts)
  \/ \E r \in 1..MaxRequests : Step1(r)
  \/ \E r \in 1..MaxRequests : Step1Answer(r)
  \/ \E r \in 1..MaxRequests : Step2(r)
  \/ \E r \in 1..MaxRequests : Settle(r)

BodySpec == Init /\ [][BodyNext]_vars

\* C19: every stored notification is globally read exactly when its globalReadAt
\* is set.
C19_GloballyReadIffDate ==
  \A doc \in notifications : doc.isGloballyRead <=> doc.globalReadAt # Null

\* C20: every stored device state, of the fan-out, of a markRead upsert or of a
\* markRead update, is read exactly when its readAt is set.
C20_ReadIffDate ==
  \A s \in deviceStates : s.isRead <=> s.readAt # Null

\* ------------------------------------ the read route with the documented sync
RepairDevices == {"D1"}   \* the devices that send markRead and sync under RepairSpec

RepairNext ==
  \/ \E d \in Registering, omitUndefined \in BOOLEAN : RegisterDevice(d, TRUE, omitUndefined)
  \/ \E n \in NotifIds, strictQuery \in BOOLEAN : CreateNotification(n, strictQuery)
  \/ \E n \in NotifIds : CreateFound(n)
  \/ \E n \in NotifIds : CreateSave(n)
  \/ \E n \in NotifIds : CreateSaved(n)
  \/ \E n \in NotifIds : CreateInsertMany(n)
  \/ \E n \in NotifIds : CreateQueue(n)
  \/ /\ Len(reqs) < MaxFrameReads
     /\ \E n \in NotifIds, d \in RepairDevices, ts \in Timestamps : Submit(n, d, ts)
  \/ \E r \in 1..MaxRequests : Step1(r)
  \/ \E r \in 1..MaxRequests : Step1Answer(r)
  \/ \E r \in 1..MaxRequests : Step2(r)
  \/ \E r \in 1..MaxRequests : Settle(r)
  \/ /\ Len(docCalls) < MaxFrameSyncs
     /\ \E d \in RepairDevices, t \in SyncSince, strictPopulate \in BOOLEAN :
          DocSync(d, t, strictPopulate)

RepairSpec == Init /\ [][RepairNext]_vars

\* C21: no step of a notification creation, of a markRead or of a sync takes a
\* read device state back to unread or moves its readAt to an earlier date.
C21_ReadStateNeverRegresses ==
  [][\A s \in deviceStates :
       s.isRead =>
         \E after \in deviceStates' :
           /\ after.notificationId = s.notificationId
           /\ after.deviceId = s.deviceId
           /\ after.isRead
           /\ after.readAt >= s.readAt]_vars

\* a device state is read; a markRead of its pair with an earlier timestamp has
\* run since and been refused, and syncDevice has found the read state and thrown
C21_Witness ==
  \E s \in deviceStates, r \in DOMAIN reqs, c \in DOMAIN docCalls :
    /\ s.isRead
    /\ reqs[r].notificationId = s.notificationId /\ reqs[r].deviceId = s.deviceId
    /\ reqs[r].pc = "done" /\ reqs[r].error = "E11000"
    /\ reqs[r].timestamp < s.readAt
    /\ docCalls[c].fn = "sync" /\ docCalls[c].pc = "done"
    /\ docCalls[c].result # ""
    /\ s \in docCalls[c].found

\* ------------------------------------------------------ one state for a pair
\* C22: no two stored device states have the same notificationId and deviceId.
C22_OneStatePerPair ==
  \A s1, s2 \in deviceStates :
    (s1.notificationId = s2.notificationId /\ s1.deviceId = s2.deviceId) => s1 = s2

\* a markRead has run its upsert on a pair whose stored state is read at a later
\* date than its timestamp, and was refused
C22_Witness ==
  \E r \in DOMAIN reqs :
    /\ reqs[r].pc = "done"
    /\ reqs[r].awaiting = NoLock
    /\ reqs[r].error = "E11000"
    /\ \E s \in getDeviceState(reqs[r].notificationId, reqs[r].deviceId) :
         s.isRead /\ s.readAt > reqs[r].timestamp

\* ------------------------------------------------- the documented push send
\* C23: when sendPushNotification invokes the transport the device is in the
\* stored pushSentTo; it is still there when the send has succeeded or failed,
\* with shouldSendPushToDevice false; and no send is invoked for a pair that has
\* had a failed send.
C23_MarkBeforeTransport ==
  [][\A c \in DOMAIN docCalls :
       /\ ( /\ docCalls[c].fn = "sendPush"
            /\ docCalls[c].pc = "marked"
            /\ docCalls'[c].pc = "send" )
          => /\ \E doc \in notifications :
                  /\ doc.notificationId = docCalls[c].notificationId
                  /\ Includes(doc.pushSentTo, docCalls[c].deviceId)
             /\ \A e \in DOMAIN docCalls :
                  ( /\ docCalls[e].fn = "sendPush"
                    /\ docCalls[e].notificationId = docCalls[c].notificationId
                    /\ docCalls[e].deviceId = docCalls[c].deviceId )
                  => docCalls[e].result # "transport_error"
       /\ ( /\ docCalls[c].fn = "sendPush"
            /\ docCalls[c].pc = "send"
            /\ docCalls'[c].pc = "done" )
          => \E doc \in notifications' :
               /\ doc.notificationId = docCalls[c].notificationId
               /\ Includes(doc.pushSentTo, docCalls[c].deviceId)
               /\ ~shouldSendPushToDevice(doc, docCalls[c].deviceId)]_vars

\* ------------------------------------------- the sync route and syncDevice
FrameDevices    == {"D1"}   \* the devices that send markRead and sync under FrameSpec
FrameTimestamps == {1}      \* the timestamps of the markRead calls

FrameNext ==
  \/ \E d \in Registering, pushToken \in BOOLEAN, omitUndefined \in BOOLEAN :
       RegisterDevice(d, pushToken, omitUndefined)
  \/ \E n \in NotifIds, strictQuery \in BOOLEAN : CreateNotification(n, strictQuery)
  \/ \E n \in NotifIds : CreateFound(n)
  \/ \E n \in NotifIds : CreateSave(n)
  \/ \E n \in NotifIds : CreateSaved(n)
  \/ \E n \in NotifIds : CreateInsertMany(n)
  \/ \E n \in NotifIds : CreateQueue(n)
  \/ /\ Len(reqs) < MaxFrameReads
     /\ \E n \in NotifIds, d \in FrameDevices, ts \in FrameTimestamps : Submit(n, d, ts)
  \/ \E r \in 1..MaxRequests : Step1(r)
  \/ \E r \in 1..MaxRequests : Step1Answer(r)
  \/ \E r \in 1..MaxRequests : Step2(r)
  \/ \E r \in 1..MaxRequests : Settle(r)
  \/ \E d \in FrameDevices, t \in SyncSince : SyncRoute(d, t)
  \/ SyncFind
  \/ SyncUpdate
  \/ /\ Len(docCalls) < MaxFrameSyncs
     /\ \E d \in FrameDevices, t \in SyncSince, strictPopulate \in BOOLEAN :
          DocSync(d, t, strictPopulate)

FrameSpec == Init /\ [][FrameNext]_vars

\* C24: no step of a sync, of the route or of syncDevice, changes isGloballyRead,
\* globalReadAt, globalReadByDevice, version or pushSentTo of a notification.
C24_SyncLeavesGlobalRecord ==
  [][(lastSync' # lastSync \/ docCalls' # docCalls) =>
       /\ \A doc \in notifications :
            \E after \in notifications' :
              /\ after.notificationId = doc.notificationId
              /\ after.isGloballyRead = doc.isGloballyRead
              /\ after.globalReadAt = doc.globalReadAt
              /\ after.globalReadByDevice = doc.globalReadByDevice
              /\ after.version = doc.version
              /\ after.pushSentTo = doc.pushSentTo
       /\ Cardinality(notifications') = Cardinality(notifications)]_vars

\* both syncs have run for a device whose state was read while the notification
\* was not globally read: syncDevice found the read state, the route has found
\* the notification and answered, and the notification is still not globally read
C24_Witness ==
  \E c \in DOMAIN docCalls :
    /\ docCalls[c].fn = "sync" /\ docCalls[c].pc = "done"
    /\ \E s \in docCalls[c].found : s.isRead
    /\ lastSync.found # {}
    /\ \E s \in deviceStates : s.deviceId = docCalls[c].deviceId /\ s.isRead
    /\ \A doc \in notifications : ~doc.isGloballyRead
    /\ lastSync.pc = "done" /\ lastSync.deviceId = docCalls[c].deviceId

\* ------------------------------------------- the read route on a failing store
FaultReaders    == {"D1"}   \* the devices that send markRead under FaultSpec
FaultTimestamps == {1}      \* and the timestamps they send

FaultNext ==
  \/ \E d \in Registering, pushToken \in BOOLEAN, omitUndefined \in BOOLEAN :
       RegisterDevice(d, pushToken, omitUndefined)
  \/ \E d \in Registering : SetOffline(d)
  \/ \E n \in NotifIds, strictQuery \in BOOLEAN : CreateNotification(n, strictQuery)
  \/ \E n \in NotifIds : CreateFound(n)
  \/ \E n \in NotifIds : CreateSave(n)
  \/ \E n \in NotifIds : CreateSaved(n)
  \/ \E n \in NotifIds : CreateInsertMany(n)
  \/ \E n \in NotifIds : CreateQueue(n)
  \/ \E n \in NotifIds, d \in FaultReaders, ts \in FaultTimestamps : Submit(n, d, ts)
  \/ \E r \in 1..MaxRequests : Step1(r)
  \/ \E r \in 1..MaxRequests : Step1Answer(r)
  \/ \E r \in 1..MaxRequests : Step1Fault(r)
  \/ \E r \in 1..MaxRequests : Step2(r)
  \/ \E r \in 1..MaxRequests : Step2Fault(r)
  \/ \E n \in NotifIds : CreateFault(n)
  \/ \E r \in 1..MaxRequests : Settle(r)

FaultSpec == Init /\ [][FaultNext]_vars

\* C25: when every markRead on a notification has been answered and a device
\* state of the notification is read, the notification is globally read.
C25_ReadAnywhereIsReadEverywhere ==
  \A doc \in notifications :
    ( /\ \A r \in RequestsOn(doc.notificationId) : reqs[r].pc = "done"
      /\ \E s \in deviceStates : s.notificationId = doc.notificationId /\ s.isRead )
    => doc.isGloballyRead

\* C26: when a markRead has written the device state and failed on the store in
\* step 2, and a later markRead with the same notification, device and timestamp
\* has run and been answered, the notification is globally read.
C26_RetryCompletes ==
  \A r1, r2 \in DOMAIN reqs :
    ( /\ r1 < r2
      /\ reqs[r1].notificationId = reqs[r2].notificationId
      /\ reqs[r1].deviceId = reqs[r2].deviceId
      /\ reqs[r1].timestamp = reqs[r2].timestamp
      /\ reqs[r1].pc = "done"
      /\ reqs[r1].error = "storage" /\ reqs[r1].deviceState # {}
      /\ reqs[r2].pc = "done" /\ reqs[r2].awaiting = NoLock )
    => \A doc \in FindNotification(reqs[r2].notificationId) : doc.isGloballyRead

\* ------------------------------------------------- the date a markRead returns
\* C27: the globalReadAt of the response of every successful markRead is the
\* globalReadAt stored on the notification.
C27_ReturnedGlobalReadAt ==
  \A r \in DOMAIN reqs :
    (reqs[r].pc = "done" /\ reqs[r].response.success)
    => \A doc \in FindNotification(reqs[r].notificationId) :
         reqs[r].response.globalReadAt = doc.globalReadAt

====
